---- MODULE Spec2Model ----
(***************************************************************************)
(* Model of scripts/compile_tests/passrate.py: the identifier filter       *)
(* should_exclude and the reconciler compute_pass_rate.                    *)
(*                                                                         *)
(* A Python str is modelled as the sequence of its characters, so that     *)
(* str.split and str.startswith are computed character by character.       *)
(* A test report directory is modelled by the list of test case records    *)
(* its XML files hold, each record carrying its key and its outcome.       *)
(***************************************************************************)
EXTENDS Integers, Sequences, FiniteSets

VARIABLES
  eager_dir,    \* the baseline (eager) run: a sequence of test case records
  dynamo_dir,   \* the transformed (dynamo) run: a sequence of test case records
  pc,           \* "input" | "done" (compute_pass_rate has returned or raised) | "filter" | "filtered"
  ret,          \* what compute_pass_rate returned (or None)
  missing_log,  \* the missing_in_dynamo set computed for the debug log
  test_key,     \* the argument of a should_exclude call
  excluded      \* what should_exclude returned (or None)

vars == <<eager_dir, dynamo_dir, pc, ret, missing_log, test_key, excluded>>

None == "None"

(***************************************************************************)
(* Bounds                                                                  *)
(***************************************************************************)
\* The two runs together hold at most MaxRecords test case records.
MaxRecords == 3

(***************************************************************************)
(* Strings                                                                 *)
(***************************************************************************)
\* The literals of should_exclude.
SEP == <<":", ":">>
UNKNOWN == <<"U", "N", "K", "N", "O", "W", "N">>
EXCLUDED_PREFIXES ==
  { <<"i", "n", "d", "u", "c", "t", "o", "r", "/">>,
    <<"e", "x", "p", "o", "r", "t", "/">>,
    <<"d", "y", "n", "a", "m", "o", "/">> }

\* s[i:i+len(sep)] == sep, for a 1-based i
OccursAt(s, sep, i) ==
  /\ i + Len(sep) - 1 <= Len(s)
  /\ SubSeq(s, i, i + Len(sep) - 1) = sep

\* str.find, scanning from the left from index i: the lowest index at which
\* sep occurs, 0 when it does not occur.
RECURSIVE FindFrom(_, _, _)
FindFrom(s, sep, i) ==
  IF i + Len(sep) - 1 > Len(s) THEN 0
  ELSE IF OccursAt(s, sep, i) THEN i
  ELSE FindFrom(s, sep, i + 1)

\* s.split(sep)[0]
SplitFirst(s, sep) ==
  LET i == FindFrom(s, sep, 1)
  IN  IF i = 0 THEN s ELSE SubSeq(s, 1, i - 1)

\* s.startswith(prefixes), prefixes a tuple of strings
StartsWith(s, prefixes) ==
  \E p \in prefixes : Len(p) <= Len(s) /\ SubSeq(s, 1, Len(p)) = p

(***************************************************************************)
(* should_exclude                                                          *)
(***************************************************************************)
\* A slip: the sentinel is compared with the unsplit key.
should_exclude_NoSplit(key_) ==
  IF key_ = UNKNOWN THEN TRUE
  ELSE StartsWith(SplitFirst(key_, SEP), EXCLUDED_PREFIXES)

should_exclude(key_) ==
  LET test_file == SplitFirst(key_, SEP)
  IN  IF test_file = UNKNOWN THEN TRUE
      ELSE StartsWith(test_file, EXCLUDED_PREFIXES)

(***************************************************************************)
(* Test case records and the report readers of common.py                   *)
(***************************************************************************)
Outcomes == {"passed", "failed", "errored", "skipped", "excluded"}

\* "::".join([file, classname, name])
TestKey(file, classname, name) == file \o SEP \o classname \o SEP \o name

Key_A == TestKey(<<"a">>, <<"T">>, <<"m">>)
Key_B == TestKey(<<"b">>, <<"T">>, <<"m">>)
Key_Inductor == TestKey(<<"i", "n", "d", "u", "c", "t", "o", "r", "/", "x">>, <<"T">>, <<"m">>)
Key_Unknown == TestKey(UNKNOWN, <<"T">>, <<"m">>)

\* The identifiers the records of the two runs are drawn from.
RunKeys == {Key_A, Key_B, Key_Inductor, Key_Unknown}

TestCases == [key : RunKeys, outcome : Outcomes]

\* key(testcase): the identifier of a record
key(tc) == tc.key

\* open_test_results(directory): the parsed reports of a run
open_test_results(directory) == directory

\* get_testcases(xmls): every record of the run, whatever its outcome
get_testcases(xmls) == xmls

\* get_passed_testcases(xmls): the records whose outcome is passed
get_passed_testcases(xmls) ==
  SelectSeq(get_testcases(xmls), LAMBDA tc : tc.outcome = "passed")

\* get_excluded_testcases(xmls): the records whose outcome is explicitly-excluded
get_excluded_testcases(xmls) ==
  SelectSeq(get_testcases(xmls), LAMBDA tc : tc.outcome = "excluded")

(***************************************************************************)
(* compute_pass_rate                                                       *)
(***************************************************************************)
\* {key(tc) for tc in testcases}
KeySet(testcases) == {key(testcases[i]) : i \in DOMAIN testcases}

\* A slip: the comprehension without its filter.
FilteredKeySet_Unfiltered(testcases) == KeySet(testcases)

\* {key(tc) for tc in testcases if not should_exclude(key(tc))}
FilteredKeySet(testcases) ==
  {key(testcases[i]) :
     i \in {j \in DOMAIN testcases : ~should_exclude(key(testcases[j]))}}

\* A slip: the last record of an identifier decides whether it passed.
dynamo_pass_keys_LastRecordWins(dynamo_xmls) ==
  LET all == get_testcases(dynamo_xmls)
      last(k) == CHOOSE i \in DOMAIN all :
                   /\ key(all[i]) = k
                   /\ \A j \in DOMAIN all : key(all[j]) = k => j <= i
  IN  {k \in KeySet(all) : all[last(k)].outcome = "passed" /\ ~should_exclude(k)}

dynamo_pass_keys(dynamo_xmls) ==
  FilteredKeySet(get_passed_testcases(dynamo_xmls))

excluded_keys(dynamo_xmls) == KeySet(get_excluded_testcases(dynamo_xmls))

\* A slip: the exclusions are read from the eager reports.
eager_pass_keys_ExcludedFromEager(eager_xmls, dynamo_xmls) ==
  FilteredKeySet(get_passed_testcases(eager_xmls)) \ excluded_keys(eager_xmls)

\* eager_pass_keys after difference_update(excluded_keys)
eager_pass_keys(eager_xmls, dynamo_xmls) ==
  FilteredKeySet(get_passed_testcases(eager_xmls)) \ excluded_keys(dynamo_xmls)

\* A slip: the intersection is left out.
successful_keys_NoIntersection(eager_xmls, dynamo_xmls) ==
  dynamo_pass_keys(dynamo_xmls)

successful_keys(eager_xmls, dynamo_xmls) ==
  eager_pass_keys(eager_xmls, dynamo_xmls) \cap dynamo_pass_keys(dynamo_xmls)

\* A slip: floor division, n // d.
TrueDiv_Floor(n, d) ==
  IF d = 0 THEN [raised |-> "ZeroDivisionError", num |-> 0, den |-> 0]
  ELSE [raised |-> None, num |-> n \div d, den |-> 1]

\* Python's n / d on ints: the quotient, kept as the exact fraction, or the
\* ZeroDivisionError it raises.
TrueDiv(n, d) ==
  IF d = 0 THEN [raised |-> "ZeroDivisionError", num |-> 0, den |-> 0]
  ELSE [raised |-> None, num |-> n, den |-> d]

\* The literal 0.0
Zero == [num |-> 0, den |-> 1]

\* A slip: the regressions are taken from the baseline set as it was before
\* the explicit exclusions were subtracted.
failing_keys_BeforeExclusion(eager_xmls, dynamo_xmls) ==
  FilteredKeySet(get_passed_testcases(eager_xmls))
    \ successful_keys(eager_xmls, dynamo_xmls)

\* A slip: the symmetric difference (^) instead of the difference (-).
failing_keys_SymmetricDifference(eager_xmls, dynamo_xmls) ==
  (eager_pass_keys(eager_xmls, dynamo_xmls) \cup dynamo_pass_keys(dynamo_xmls))
    \ successful_keys(eager_xmls, dynamo_xmls)

\* A slip: identifiers absent from the dynamo reports are left out.
failing_keys_OnlyExecuted(eager_xmls, dynamo_xmls) ==
  (eager_pass_keys(eager_xmls, dynamo_xmls) \ successful_keys(eager_xmls, dynamo_xmls))
    \cap KeySet(get_testcases(dynamo_xmls))

failing_keys(eager_xmls, dynamo_xmls) ==
  eager_pass_keys(eager_xmls, dynamo_xmls) \ successful_keys(eager_xmls, dynamo_xmls)

missing_in_dynamo(eager_xmls, dynamo_xmls) ==
  eager_pass_keys(eager_xmls, dynamo_xmls) \ KeySet(get_testcases(dynamo_xmls))

\* A slip: no early return when no eager test is left.
compute_pass_rate_NoGuard(eager_dir_, dynamo_dir_) ==
  LET eager_xmls == open_test_results(eager_dir_)
      dynamo_xmls == open_test_results(dynamo_dir_)
      eager_keys == eager_pass_keys(eager_xmls, dynamo_xmls)
      pass_rate == TrueDiv(Cardinality(successful_keys(eager_xmls, dynamo_xmls)),
                           Cardinality(eager_keys))
  IN  IF pass_rate.raised # None
      THEN [raised |-> pass_rate.raised, pass_rate |-> None,
            eager_pass_keys |-> None, failing_keys |-> None, logged |-> None]
      ELSE [raised |-> None, pass_rate |-> [num |-> pass_rate.num, den |-> pass_rate.den],
            eager_pass_keys |-> eager_keys,
            failing_keys |-> failing_keys(eager_xmls, dynamo_xmls),
            logged |-> missing_in_dynamo(eager_xmls, dynamo_xmls)]

\* What compute_pass_rate returns (or raises), with the set it hands to the
\* debug log.
compute_pass_rate(eager_dir_, dynamo_dir_) ==
  LET eager_xmls == open_test_results(eager_dir_)
      dynamo_xmls == open_test_results(dynamo_dir_)
      eager_keys == eager_pass_keys(eager_xmls, dynamo_xmls)
      total_eager_tests == Cardinality(eager_keys)
      pass_rate == TrueDiv(Cardinality(successful_keys(eager_xmls, dynamo_xmls)),
                           total_eager_tests)
  IN  IF total_eager_tests = 0
      THEN [raised |-> None, pass_rate |-> Zero, eager_pass_keys |-> eager_keys,
            failing_keys |-> {}, logged |-> None]
      ELSE IF pass_rate.raised # None
      THEN [raised |-> pass_rate.raised, pass_rate |-> None,
            eager_pass_keys |-> None, failing_keys |-> None, logged |-> None]
      ELSE [raised |-> None, pass_rate |-> [num |-> pass_rate.num, den |-> pass_rate.den],
            eager_pass_keys |-> eager_keys,
            failing_keys |-> failing_keys(eager_xmls, dynamo_xmls),
            logged |-> missing_in_dynamo(eager_xmls, dynamo_xmls)]

(***************************************************************************)
(* The reconciler as a state machine: the reports of the two runs arrive   *)
(* record by record, then compute_pass_rate is called on them.             *)
(***************************************************************************)
Init ==
  /\ eager_dir = <<>>
  /\ dynamo_dir = <<>>
  /\ pc = "input"
  /\ ret = None
  /\ missing_log = None
  /\ test_key = None
  /\ excluded = None

\* download_reports: one more record in the eager report
DownloadEager(tc) ==
  /\ pc = "input"
  /\ Len(eager_dir) + Len(dynamo_dir) < MaxRecords
  /\ eager_dir' = Append(eager_dir, tc)
  /\ UNCHANGED <<dynamo_dir, pc, ret, missing_log, test_key, excluded>>

\* download_reports: one more record in the dynamo report
DownloadDynamo(tc) ==
  /\ pc = "input"
  /\ Len(eager_dir) + Len(dynamo_dir) < MaxRecords
  /\ dynamo_dir' = Append(dynamo_dir, tc)
  /\ UNCHANGED <<eager_dir, pc, ret, missing_log, test_key, excluded>>

ComputePassRate ==
  /\ pc = "input"
  /\ LET r == compute_pass_rate(eager_dir, dynamo_dir)
     IN  /\ ret' = [raised |-> r.raised, pass_rate |-> r.pass_rate,
                    eager_pass_keys |-> r.eager_pass_keys,
                    failing_keys |-> r.failing_keys]
         /\ missing_log' = r.logged
  /\ pc' = "done"
  /\ UNCHANGED <<eager_dir, dynamo_dir, test_key, excluded>>

Next ==
  \/ \E tc \in TestCases : DownloadEager(tc)
  \/ \E tc \in TestCases : DownloadDynamo(tc)
  \/ ComputePassRate

Spec == Init /\ [][Next]_vars

(***************************************************************************)
(* The identifier filter on its own: should_exclude called on one key.     *)
(***************************************************************************)
\* File components: the sentinel, the excluded prefixes, and near misses.
FileComponents ==
  LET inductor == <<"i", "n", "d", "u", "c", "t", "o", "r">>
      export == <<"e", "x", "p", "o", "r", "t">>
      dynamo == <<"d", "y", "n", "a", "m", "o">>
      dirs == {inductor, export, dynamo}
  IN  {UNKNOWN, <<"U", "N", "K", "N", "O", "W">>, UNKNOWN \o <<"S">>,
       <<"X">> \o UNKNOWN, UNKNOWN \o <<":">>, <<>>, <<"a">>, <<":">>,
       <<"a", ":", "b">>, <<"a", "/", "b">>}
      \cup dirs
      \cup {d \o <<"/">> : d \in dirs}
      \cup {d \o <<"/", "x">> : d \in dirs}
      \cup {<<"a", "/">> \o d \o <<"/">> : d \in dirs}
      \cup {d \o <<":", "/">> : d \in dirs}

\* What follows the file component: nothing (no separator at all), a class
\* and a name, a single colon, a bare separator, a separator and a sentinel.
KeyTails ==
  {<<>>, SEP \o <<"T">> \o SEP \o <<"m">>, <<":", "T">>, SEP,
   SEP \o UNKNOWN, SEP \o <<"d", "y", "n", "a", "m", "o", "/">>}

TestKeys == {f \o t : f \in FileComponents, t \in KeyTails}

InitFilter ==
  /\ eager_dir = <<>>
  /\ dynamo_dir = <<>>
  /\ pc = "filter"
  /\ ret = None
  /\ missing_log = None
  /\ test_key \in TestKeys
  /\ excluded = None

ShouldExclude ==
  /\ pc = "filter"
  /\ excluded' = should_exclude(test_key)
  /\ pc' = "filtered"
  /\ UNCHANGED <<eager_dir, dynamo_dir, ret, missing_log, test_key>>

NextFilter == ShouldExclude

SpecFilter == InitFilter /\ [][NextFilter]_vars

(***************************************************************************)
(* The vocabulary of the properties, stated on the records themselves.     *)
(***************************************************************************)
Sentinel == <<"U", "N", "K", "N", "O", "W", "N">>
OutOfScopeDirs ==
  { <<"i", "n", "d", "u", "c", "t", "o", "r", "/">>,
    <<"e", "x", "p", "o", "r", "t", "/">>,
    <<"d", "y", "n", "a", "m", "o", "/">> }

\* The places of an identifier at which a "::" begins.
SeparatorPlaces(id) ==
  {i \in 1..(Len(id) - 1) : id[i] = ":" /\ id[i + 1] = ":"}

\* The substring before the first "::", the whole identifier when it has none.
FileComponentOf(id) ==
  IF SeparatorPlaces(id) = {} THEN id
  ELSE LET first == CHOOSE i \in SeparatorPlaces(id) :
                      \A j \in SeparatorPlaces(id) : i <= j
       IN  [k \in 1..(first - 1) |-> id[k]]

IsPrefixOf(p, s) ==
  /\ Len(p) <= Len(s)
  /\ \A i \in 1..Len(p) : s[i] = p[i]

OutOfScope(id) ==
  \/ FileComponentOf(id) = Sentinel
  \/ \E d \in OutOfScopeDirs : IsPrefixOf(d, FileComponentOf(id))

\* The run holds a record of identifier k with outcome o.
HasRecord(run, k, o) ==
  \E i \in DOMAIN run : run[i].key = k /\ run[i].outcome = o

\* The run holds some record of identifier k.
HasAnyRecord(run, k) == \E i \in DOMAIN run : run[i].key = k

\* Passed at baseline, in scope, not explicitly excluded by the transformed run.
BaselinePassKeys ==
  {k \in RunKeys : /\ HasRecord(eager_dir, k, "passed")
                   /\ ~OutOfScope(k)
                   /\ ~HasRecord(dynamo_dir, k, "excluded")}

\* Passed in the transformed run, in scope.
TransformedPassKeys ==
  {k \in RunKeys : HasRecord(dynamo_dir, k, "passed") /\ ~OutOfScope(k)}

Returned == pc = "done" /\ ret.raised = None

\* C1: when the filtered, exclusion-subtracted baseline pass set is not empty,
\* the returned rate is |returned baseline set /\ transformed pass set| divided
\* by |returned baseline set|.
C1_RateIsRatio ==
  (pc = "done" /\ BaselinePassKeys # {}) =>
    /\ ret.raised = None
    /\ ret.pass_rate.den > 0
    /\ ret.pass_rate.num * Cardinality(ret.eager_pass_keys)
         = Cardinality(ret.eager_pass_keys \cap TransformedPassKeys) * ret.pass_rate.den

\* Baseline passes {A, B}, transformed passes {A}, no exclusions: rate 0.5,
\* regressions {B}.
C1_Witness ==
  /\ Returned
  /\ BaselinePassKeys = {Key_A, Key_B}
  /\ TransformedPassKeys = {Key_A}
  /\ ret.pass_rate.num * 2 = ret.pass_rate.den
  /\ ret.failing_keys = {Key_B}

\* C2: the returned rate lies in [0.0, 1.0]: compute_pass_rate returns, and the
\* count of successful identifiers is between 0 and the count of filtered
\* baseline pass identifiers.
C2_RateBounds ==
  pc = "done" =>
    /\ ret.raised = None
    /\ ret.pass_rate.den > 0
    /\ 0 <= ret.pass_rate.num
    /\ ret.pass_rate.num <= ret.pass_rate.den

\* The transformed run passes more identifiers than the baseline does.
C2_Witness ==
  /\ Returned
  /\ ret.eager_pass_keys # {}
  /\ Cardinality(TransformedPassKeys) > Cardinality(ret.eager_pass_keys)

\* C3: the returned regression set is a subset of the returned baseline set and
\* shares no identifier with the successful set.
C3_RegressionsSubset ==
  Returned =>
    /\ ret.failing_keys \subseteq ret.eager_pass_keys
    /\ ret.failing_keys \cap (ret.eager_pass_keys \cap TransformedPassKeys) = {}

\* Some identifier regressed and another succeeded.
C3_Witness ==
  /\ Returned
  /\ ret.failing_keys # {}
  /\ ret.eager_pass_keys \cap TransformedPassKeys # {}

\* C4: an identifier passed at baseline and explicitly excluded by the
\* transformed run is in neither returned set, whether or not it also passed
\* in the transformed run; an exclusion recorded by the baseline run alone
\* removes nothing.
C4_ExclusionSubtracted ==
  Returned =>
    \A k \in RunKeys :
      /\ (HasRecord(eager_dir, k, "passed") /\ HasRecord(dynamo_dir, k, "excluded"))
           => (k \notin ret.eager_pass_keys /\ k \notin ret.failing_keys)
      /\ (/\ HasRecord(eager_dir, k, "passed")
          /\ ~OutOfScope(k)
          /\ ~HasRecord(dynamo_dir, k, "excluded"))
           => k \in ret.eager_pass_keys

\* An in-scope identifier passed at baseline, and both passed and was
\* explicitly excluded in the transformed run.
C4_Witness ==
  /\ Returned
  /\ \E k \in RunKeys :
       /\ ~OutOfScope(k)
       /\ HasRecord(eager_dir, k, "passed")
       /\ HasRecord(dynamo_dir, k, "excluded")
       /\ HasRecord(dynamo_dir, k, "passed")

\* C5: when no baseline identifier remains after filtering and exclusion
\* subtraction, compute_pass_rate returns (does not raise) rate 0.0, an empty
\* baseline set and an empty regression set.
C5_EmptyBaseline ==
  (pc = "done" /\ BaselinePassKeys = {}) =>
    /\ ret.raised = None
    /\ ret.pass_rate.num = 0
    /\ ret.pass_rate.den > 0
    /\ ret.eager_pass_keys = {}
    /\ ret.failing_keys = {}

\* The baseline passes only an identifier under inductor/.
C5_Witness ==
  /\ Returned
  /\ eager_dir = <<[key |-> Key_Inductor, outcome |-> "passed"]>>
  /\ BaselinePassKeys = {}

\* C6 as stated: whenever the transformed pass set is a superset of the
\* baseline pass set, the rate is 1.0 and there are no regressions.
C6_PerfectMatch_AsStated ==
  (pc = "done" /\ BaselinePassKeys \subseteq TransformedPassKeys) =>
    /\ ret.raised = None
    /\ ret.pass_rate.den > 0
    /\ ret.pass_rate.num = ret.pass_rate.den
    /\ ret.failing_keys = {}

\* C6: whenever the transformed pass set is a superset of a non-empty baseline
\* pass set, the rate is 1.0 and there are no regressions; when the baseline
\* pass set is empty, the rate is 0.0 and there are no regressions.
C6_PerfectMatch ==
  (pc = "done" /\ BaselinePassKeys \subseteq TransformedPassKeys) =>
    /\ ret.raised = None
    /\ ret.pass_rate.den > 0
    /\ ret.failing_keys = {}
    /\ IF BaselinePassKeys # {}
       THEN ret.pass_rate.num = ret.pass_rate.den
       ELSE ret.pass_rate.num = 0

\* The transformed run passes everything the baseline passes, and more.
C6_Witness ==
  /\ Returned
  /\ BaselinePassKeys # {}
  /\ BaselinePassKeys \subseteq TransformedPassKeys
  /\ BaselinePassKeys # TransformedPassKeys

\* C7: no returned set holds an identifier whose file component is "UNKNOWN"
\* or starts with inductor/, export/ or dynamo/.
C7_NoOutOfScopeKeys ==
  Returned =>
    \A k \in ret.eager_pass_keys \cup ret.failing_keys :
      /\ FileComponentOf(k) # Sentinel
      /\ \A d \in OutOfScopeDirs : ~IsPrefixOf(d, FileComponentOf(k))

\* Both kinds of out-of-scope identifier passed at baseline, beside one in scope.
C7_Witness ==
  /\ Returned
  /\ HasRecord(eager_dir, Key_Unknown, "passed")
  /\ HasRecord(eager_dir, Key_Inductor, "passed")
  /\ ret.eager_pass_keys # {}

\* C8: should_exclude returns a boolean, TRUE exactly when the file component
\* (the substring before the first "::", the whole string when there is none)
\* is "UNKNOWN" or starts with an excluded prefix.
C8_ShouldExclude ==
  pc = "filtered" =>
    /\ excluded \in BOOLEAN
    /\ excluded = OutOfScope(test_key)

\* An identifier without any separator that is excluded by its prefix.
C8_Witness ==
  /\ pc = "filtered"
  /\ SeparatorPlaces(test_key) = {}
  /\ Len(test_key) > Len(Sentinel)
  /\ excluded = TRUE

\* C9: an identifier passes a run when at least one of its records there has
\* outcome passed, wherever that record stands: every returned baseline
\* identifier with a passed record in the transformed run is counted as
\* successful and is no regression, and a baseline identifier with a passed
\* record is a baseline pass whatever its other records say.
C9_AnyPassCounts ==
  Returned =>
    /\ \A k \in ret.eager_pass_keys :
         HasRecord(dynamo_dir, k, "passed") => k \notin ret.failing_keys
    /\ ret.eager_pass_keys # {} =>
         ret.pass_rate.num * Cardinality(ret.eager_pass_keys) =
           Cardinality({k \in ret.eager_pass_keys : HasRecord(dynamo_dir, k, "passed")})
             * ret.pass_rate.den
    /\ \A k \in RunKeys :
         (/\ HasRecord(eager_dir, k, "passed")
          /\ ~OutOfScope(k)
          /\ ~HasRecord(dynamo_dir, k, "excluded")) => k \in ret.eager_pass_keys

\* A baseline pass whose transformed records are a pass followed by a failure.
C9_Witness ==
  /\ Returned
  /\ \E k \in ret.eager_pass_keys :
       \E i, j \in DOMAIN dynamo_dir :
         /\ i < j
         /\ dynamo_dir[i] = [key |-> k, outcome |-> "passed"]
         /\ dynamo_dir[j] = [key |-> k, outcome |-> "failed"]
  /\ ret.failing_keys = {}

\* C10: the regressions are exactly the returned baseline identifiers without
\* a passed record in the transformed run, so they include those that failed,
\* errored, were skipped or are absent there; the logged absentee set is the
\* returned baseline identifiers without any transformed record, a subset of
\* the regressions.
C10_RegressionsComplete ==
  Returned =>
    /\ \A k \in ret.eager_pass_keys :
         ~HasRecord(dynamo_dir, k, "passed") => k \in ret.failing_keys
    /\ ret.failing_keys =
         {k \in ret.eager_pass_keys : ~HasRecord(dynamo_dir, k, "passed")}
    /\ ret.eager_pass_keys # {} =>
         /\ missing_log = {k \in ret.eager_pass_keys : ~HasAnyRecord(dynamo_dir, k)}
         /\ missing_log \subseteq ret.failing_keys

\* One baseline pass failed in the transformed run, another is absent from it.
C10_Witness ==
  /\ Returned
  /\ ret.eager_pass_keys # {}
  /\ missing_log # {}
  /\ ret.failing_keys \ missing_log # {}

====
